---- MODULE Spec2Model ----
(***************************************************************************)
(* Model of ocs, the git history analyser: the revision selector and the  *)
(* commit filter of src/git.rs (and their copies in the stand-alone       *)
(* binaries), the tree walks and the Summary / Hotspot / Revisions        *)
(* aggregators of src/subcommands/ and src/bin/.                           *)
(***************************************************************************)
EXTENDS Integers, Sequences, FiniteSets, TLC

VARIABLES
    prog,               \* the command that runs
    matches,            \* the ArgMatches of a subcommand, None for a direct run
    args,               \* GitArgs / Args: commit, commit_msg_grep, before, after
    unreadable,         \* commits whose lookup fails during the walk
    pc,                 \* "start", "walking", "done", "failed"
    ops,                \* the calls made on the revwalk: push, hide, push_head
    todo,               \* commits the revwalk has still to yield
    yielded,            \* commits the revwalk has yielded, in order
    retained,           \* commits that reached the loop body, in order
    number_of_commits,  \* Summary: commit counter
    authors,            \* Summary: author-name set
    entries,            \* Summary: path-name set
    entries_changed,    \* Summary: content-id set
    revs,               \* Hotspot / Revisions: BTreeSet<EntryRevisions>
    output,             \* the lines written to stdout, in order
    error,              \* the error run returned: "open", "resolve", "lookup"
    exit_status,        \* the exit status of the process, once main has ended
    show_progress,      \* PROGRESS.show_progress
    commit_analysing,   \* PROGRESS.commit_analysing: the progress bar
    call                \* the last direct call of a filter predicate

vars == <<prog, matches, args, unreadable, pc, ops, todo, yielded, retained,
          number_of_commits, authors, entries, entries_changed, revs,
          output, error, exit_status, show_progress, commit_analysing, call>>

runvars == <<prog, matches, args, unreadable, pc, ops, todo, yielded, retained,
             number_of_commits, authors, entries, entries_changed, revs,
             output, error, exit_status, show_progress, commit_analysing>>

(***************************************************************************)
(* Bounds of the model.                                                    *)
(***************************************************************************)
MaxSecs == 2        \* timestamps and bounds range over -1..MaxSecs seconds
MaxMsgLen == 2      \* commit messages have at most this many characters
MaxGrepLen == 2     \* message patterns have at most this many characters
MaxSpecifiers == 2  \* revision specifiers on one command line

(***************************************************************************)
(* Option<T>: None is the empty set, Some(x) the singleton.                *)
(***************************************************************************)
None == {}
Some(x) == {x}
Unwrap(o) == CHOOSE x \in o : TRUE
Option(S) == {None} \cup {Some(x) : x \in S}

RECURSIVE SeqsUpTo(_, _)
SeqsUpTo(S, n) ==
    IF n = 0 THEN {<<>>}
    ELSE LET shorter == SeqsUpTo(S, n - 1)
         IN  shorter \cup {Append(s, x) : s \in {t \in shorter : Len(t) = n - 1}, x \in S}

Range(s) == {s[i] : i \in 1..Len(s)}

(***************************************************************************)
(* git2::Time: signed seconds and an offset in minutes.  Its Ord compares  *)
(* the pair (seconds, offset) lexicographically.                           *)
(***************************************************************************)
Time(secs, off) == [time |-> secs, offset |-> off]

Offsets == {-60, 0, 60}

TimeLess(a, b) ==
    \/ a.time < b.time
    \/ a.time = b.time /\ a.offset < b.offset

\* parse_iso_date_and_convert_to_git_time builds every bound with offset 0.
Bounds == {Time(s, 0) : s \in -1..MaxSecs}

Timestamps == {Time(s, o) : s \in -1..MaxSecs, o \in Offsets}

(***************************************************************************)
(* The repository the commands read.  History:                             *)
(*                                                                         *)
(*     c1 <- c2 <- c3 (HEAD)        c1 <- c4         c5 (a second root)     *)
(*                                                                         *)
(* c1..c3 are a linear history of three commits by two authors: c1 has     *)
(* a.txt (X); c2 has a.txt (Y) and b.txt (Z); c3 has the tree of c2.       *)
(* c4 has the same leaf name x in dir1, dir2 and dir2/deep, a directory a  *)
(* with a file b next to a file a-b, a submodule link, and entries whose   *)
(* names are not UTF-8 (name() is None).                                   *)
(***************************************************************************)
Commits == {"c1", "c2", "c3", "c4", "c5"}

Chars == {"a", "A", "b"}

Entry(name, kind, id) == [name |-> name, kind |-> kind, id |-> id]

Trees ==
    [t \in {"T1", "T2", "T3", "T4", "T5", "T6", "T7", "T8"} |->
        CASE t = "T1" -> <<Entry(Some("a.txt"), "blob", "X")>>
          [] t = "T2" -> <<Entry(Some("a.txt"), "blob", "Y"),
                           Entry(Some("b.txt"), "blob", "Z")>>
          [] t = "T3" -> <<Entry(Some("a"), "tree", "T8"),
                           Entry(Some("a-b"), "blob", "U"),
                           Entry(Some("dir1"), "tree", "T4"),
                           Entry(Some("dir2"), "tree", "T5"),
                           Entry(Some("sub"), "commit", "S"),
                           Entry(None, "blob", "N"),
                           Entry(None, "tree", "T7")>>
          [] t = "T4" -> <<Entry(Some("x"), "blob", "P")>>
          [] t = "T5" -> <<Entry(Some("deep"), "tree", "T6"),
                           Entry(Some("x"), "blob", "Q")>>
          [] t = "T6" -> <<Entry(Some("x"), "blob", "P")>>
          [] t = "T7" -> <<Entry(Some("y"), "blob", "R")>>
          [] t = "T8" -> <<Entry(Some("b"), "blob", "V")>>]

Commit(parents, author, message, time, tree) ==
    [parents |-> parents, author |-> author, message |-> message,
     time |-> time, tree |-> tree]

Repo ==
    [c \in Commits |->
        CASE c = "c1" -> Commit({}, Some("ann"), Some(<<"a", "b">>), Time(0, 0), "T1")
          [] c = "c2" -> Commit({"c1"}, Some("bob"), Some(<<"A">>), Time(1, 0), "T2")
          [] c = "c3" -> Commit({"c2"}, Some("ann"), None, Time(2, 60), "T2")
          [] c = "c4" -> Commit({"c1"}, None, Some(<<"b", "a">>), Time(1, -60), "T3")
          [] c = "c5" -> Commit({}, Some("bob"), Some(<<>>), Time(-1, 0), "T1")]

\* The commit HEAD points to.
HeadCommit == "c3"

\* The commit each name of a revision specifier resolves to; "Z" and any
\* other name resolve to nothing.

Resolve(name) ==
    CASE name = "A" -> Some("c1")
      [] name = "B" -> Some("c2")
      [] name = "C" -> Some("c3")
      [] name = "D" -> Some("c4")
      [] name = "E" -> Some("c5")
      [] OTHER -> None

RECURSIVE Ancestors(_)
\* The commits reachable from a set of commits, the set included.
Ancestors(S) ==
    LET up == S \cup UNION {Repo[c].parents : c \in S}
    IN  IF up = S THEN S ELSE Ancestors(up)

(***************************************************************************)
(* The revision selector.  A specifier is its sequence of tokens:          *)
(* <<"C">>, <<"^", "A">>, <<"A", "..", "C">>, <<"D", "...", "C">>.         *)
(***************************************************************************)
starts_with_caret(commit) == Len(commit) > 0 /\ commit[1] = "^"

\* Repository::revparse_single: Some(id), or None when it fails.
revparse_single(rest) ==
    IF Len(rest) = 1 THEN Resolve(rest[1]) ELSE None

Revspec(mode, from, to) == [mode |-> mode, from |-> from, to |-> to]

\* Repository::revparse: Some(revspec), or None when it fails.
revparse(commit) ==
    IF Len(commit) = 1 /\ Resolve(commit[1]) # None
        THEN Some(Revspec({"SINGLE"}, Resolve(commit[1]), None))
    ELSE IF /\ Len(commit) = 3
            /\ commit[2] \in {"..", "..."}
            /\ Resolve(commit[1]) # None
            /\ Resolve(commit[3]) # None
        THEN Some(Revspec(IF commit[2] = ".." THEN {"RANGE"}
                                              ELSE {"RANGE", "MERGE_BASE"},
                          Resolve(commit[1]), Resolve(commit[3])))
    ELSE None

\* Repository::merge_base: a best common ancestor, or None when there is none.
merge_base(from, to) ==
    LET common == Ancestors({from}) \cap Ancestors({to})
        best == {c \in common : \A d \in common \ {c} : c \notin Ancestors({d})}
    IN  IF best = {} THEN None ELSE Some(CHOOSE c \in best : TRUE)

Push(id) == <<"push", id>>
Hide(id) == <<"hide", id>>
PushHead == <<"push_head", HeadCommit>>

\* A range that pushes `from` and hides `to`.
SpecifierOps_range_swapped(commit) ==
    IF starts_with_caret(commit) THEN
        LET obj == revparse_single(Tail(commit))
        IN  IF obj = None THEN None ELSE Some(<<Hide(Unwrap(obj))>>)
    ELSE
        LET revspec == revparse(commit)
        IN  IF revspec = None THEN None
            ELSE IF "SINGLE" \in Unwrap(revspec).mode
                THEN Some(<<Push(Unwrap(Unwrap(revspec).from))>>)
            ELSE
                LET from == Unwrap(Unwrap(revspec).from)
                    to == Unwrap(Unwrap(revspec).to)
                IN  IF "MERGE_BASE" \in Unwrap(revspec).mode
                        THEN IF merge_base(from, to) = None THEN None
                             ELSE Some(<<Push(from), Push(Unwrap(merge_base(from, to))),
                                         Hide(to)>>)
                        ELSE Some(<<Push(from), Hide(to)>>)

\* The revwalk calls one specifier makes, or None when resolving it fails.
SpecifierOps(commit) ==
    IF starts_with_caret(commit) THEN
        LET obj == revparse_single(Tail(commit))
        IN  IF obj = None THEN None ELSE Some(<<Hide(Unwrap(obj))>>)
    ELSE
        LET revspec == revparse(commit)
        IN  IF revspec = None THEN None
            ELSE IF "SINGLE" \in Unwrap(revspec).mode
                THEN Some(<<Push(Unwrap(Unwrap(revspec).from))>>)
            ELSE
                LET from == Unwrap(Unwrap(revspec).from)
                    to == Unwrap(Unwrap(revspec).to)
                IN  IF "MERGE_BASE" \in Unwrap(revspec).mode
                        THEN IF merge_base(from, to) = None THEN None
                             ELSE Some(<<Push(to), Push(Unwrap(merge_base(from, to))),
                                         Hide(from)>>)
                        ELSE Some(<<Push(to), Hide(from)>>)

\* The calls a failing specifier has made when its `?` returns: a three-dot
\* range has pushed `to` when merge_base fails, every other failure comes
\* before the first call.
PartialOps(commit) ==
    IF ~starts_with_caret(commit) /\ revparse(commit) # None
        THEN <<Push(Unwrap(Unwrap(revparse(commit)).to))>>
        ELSE <<>>

RECURSIVE PrepareFrom_skipping(_, _, _)
\* A loop that passes over a specifier that does not resolve.
PrepareFrom_skipping(commits, i, done) ==
    IF i > Len(commits) THEN [ops |-> done, err |-> FALSE]
    ELSE LET o == SpecifierOps(commits[i])
         IN  IF o = None THEN PrepareFrom_skipping(commits, i + 1, done)
             ELSE PrepareFrom_skipping(commits, i + 1, done \o Unwrap(o))

RECURSIVE PrepareFrom(_, _, _)
\* The loop over args.commit from specifier i on: the calls made so far and
\* whether a `?` returned an error.
PrepareFrom(commits, i, done) ==
    IF i > Len(commits) THEN [ops |-> done, err |-> FALSE]
    ELSE LET o == SpecifierOps(commits[i])
         IN  IF o = None THEN [ops |-> done \o PartialOps(commits[i]), err |-> TRUE]
             ELSE PrepareFrom(commits, i + 1, done \o Unwrap(o))

\* push_head whatever the specifiers are.
PrepareRevwalk_always_head(commits) ==
    LET p == PrepareFrom(commits, 1, <<>>)
    IN  IF p.err THEN p ELSE [p EXCEPT !.ops = Append(@, PushHead)]

\* The part of determine_commits_to_analyse (and of run in the stand-alone
\* binaries) that prepares the revwalk.
PrepareRevwalk(commits) ==
    LET p == PrepareFrom(commits, 1, <<>>)
    IN  IF p.err THEN p
        ELSE IF Len(commits) = 0 THEN [p EXCEPT !.ops = Append(@, PushHead)]
        ELSE p

Pushed(o) == {o[i][2] : i \in {j \in 1..Len(o) : o[j][1] \in {"push", "push_head"}}}
Hidden(o) == {o[i][2] : i \in {j \in 1..Len(o) : o[j][1] = "hide"}}

\* What the revwalk yields: the commits reachable from a pushed commit and
\* from no hidden commit.
RevwalkCommits(o) == Ancestors(Pushed(o)) \ Ancestors(Hidden(o))

(***************************************************************************)
(* Tree walks.                                                             *)
(***************************************************************************)
RECURSIVE Walk(_, _)
RECURSIVE WalkFrom(_, _, _)
\* Tree::walk(PreOrder): the callback sees every entry of the tree, a
\* subtree's entry before the entries below it, with the path of the
\* directory the entry is in.
Walk(tree, root) == WalkFrom(tree, 1, root)

WalkFrom(tree, i, root) ==
    IF i > Len(Trees[tree]) THEN <<>>
    ELSE LET entry == Trees[tree][i]
             below == IF entry.kind = "tree"
                          THEN Walk(entry.id, Append(root, entry.name))
                          ELSE <<>>
         IN  <<[root |-> root, entry |-> entry]>> \o below \o WalkFrom(tree, i + 1, root)

\* The root directory the revisions command starts every path from
\* (common_args.project_dir).
ProjectDir == <<"repo">>

(***************************************************************************)
(* Summary: the path-name set and the content-id set.                      *)
(* A String or PathBuf is modelled by its sequence of path components.     *)
(***************************************************************************)
summary_analyse_entries_in_commit(commit, set) ==
    LET walk == Walk(Repo[commit].tree, <<>>)
    IN  set \cup {<<Unwrap(w.entry.name)>> :
                  w \in {v \in Range(walk) :
                            v.entry.kind = "blob" /\ v.entry.name # None}}

\* A content-id set that keeps one element per commit and blob.
analyse_entries_changed_in_commit_per_commit(commit, set) ==
    LET walk == Walk(Repo[commit].tree, <<>>)
    IN  set \cup {<<commit, w.entry.id>> :
                  w \in {v \in Range(walk) : v.entry.kind = "blob"}}

analyse_entries_changed_in_commit(commit, set) ==
    LET walk == Walk(Repo[commit].tree, <<>>)
    IN  set \cup {w.entry.id : w \in {v \in Range(walk) : v.entry.kind = "blob"}}

(***************************************************************************)
(* Hotspot and Revisions: BTreeSet<EntryRevisions>, equality and order by  *)
(* name alone.                                                             *)
(***************************************************************************)
EntryRevisions_new(name) == [name |-> name, revisions |-> {}]

\* An insert that puts the new element in the place of an equal one.
BTreeInsert_overwrite(set, e) == {x \in set : x.name # e.name} \cup {e}

\* BTreeSet::insert keeps the element already there when one is equal.
BTreeInsert(set, e) ==
    IF \E x \in set : x.name = e.name THEN set ELSE set \cup {e}

BTreeGet(set, e) == {x \in set : x.name = e.name}

BTreeReplace(set, e) == {x \in set : x.name # e.name} \cup {e}

\* An observation that keeps the last blob id of a name alone.
ObserveEntry_last_blob(set, name, id) ==
    BTreeReplace(set, [name |-> name, revisions |-> {id}])

\* insert a fresh entry, get the stored one, add the blob id, replace.
ObserveEntry(set, name, id) ==
    LET entry_revision == EntryRevisions_new(name)
        inserted == BTreeInsert(set, entry_revision)
        found == BTreeGet(inserted, entry_revision)
    IN  IF found # None
            THEN BTreeReplace(inserted,
                     [Unwrap(found) EXCEPT !.revisions = @ \cup {id}])
            ELSE inserted

RECURSIVE HotspotFold(_, _, _)
HotspotFold(walk, i, set) ==
    IF i > Len(walk) THEN set
    ELSE LET entry == walk[i].entry
         IN  HotspotFold(walk, i + 1,
                 IF entry.kind = "blob" /\ entry.name # None
                     THEN ObserveEntry(set, <<Unwrap(entry.name)>>, entry.id)
                     ELSE set)

\* analyse_entries_in_commit of the hotspot command and of ocs-revisions.
hotspot_analyse_entries_in_commit(commit, set) ==
    HotspotFold(Walk(Repo[commit].tree, <<>>), 1, set)

RECURSIVE analyze_tree_object(_, _, _)
RECURSIVE AnalyzeFrom(_, _, _, _)
\* analyze_tree_object of the revisions command: entries with a name only;
\* a blob is observed at path + name, a subtree is descended into.
analyze_tree_object(tree, path, set) == AnalyzeFrom(tree, 1, path, set)

AnalyzeFrom(tree, i, path, set) ==
    IF i > Len(Trees[tree]) THEN set
    ELSE LET entry == Trees[tree][i]
             p == IF entry.name # None THEN Append(path, Unwrap(entry.name)) ELSE path
             after == IF entry.name = None THEN set
                      ELSE IF entry.kind = "blob" THEN ObserveEntry(set, p, entry.id)
                      ELSE IF entry.kind = "tree" THEN analyze_tree_object(entry.id, p, set)
                      ELSE set
         IN  AnalyzeFrom(tree, i + 1, path, after)

revisions_analyse_entries_in_commit(commit, path, set) ==
    analyze_tree_object(Repo[commit].tree, path, set)

(***************************************************************************)
(* Order of a BTreeSet<EntryRevisions>.  String compares the bytes of the  *)
(* text; PathBuf compares component by component.                          *)
(***************************************************************************)
NameBytes(n) ==
    CASE n = "a" -> <<97>>
      [] n = "a-b" -> <<97, 45, 98>>
      [] n = "a.txt" -> <<97, 46, 116, 120, 116>>
      [] n = "b" -> <<98>>
      [] n = "b.txt" -> <<98, 46, 116, 120, 116>>
      [] n = "deep" -> <<100, 101, 101, 112>>
      [] n = "dir1" -> <<100, 105, 114, 49>>
      [] n = "dir2" -> <<100, 105, 114, 50>>
      [] n = "repo" -> <<114, 101, 112, 111>>
      [] n = "x" -> <<120>>
      [] n = "y" -> <<121>>

\* Lexicographic order of two sequences of numbers.
LexLess(a, b) ==
    \E i \in 1..(Len(a) + 1) :
        /\ \A k \in 1..(i - 1) : k <= Len(b) /\ a[k] = b[k]
        /\ i <= Len(b)
        /\ i > Len(a) \/ a[i] < b[i]

\* Ord of PathBuf: the first differing component decides.
PathLess(p, q) ==
    \E i \in 1..(Len(p) + 1) :
        /\ \A k \in 1..(i - 1) : k <= Len(q) /\ p[k] = q[k]
        /\ i <= Len(q)
        /\ i > Len(p) \/ LexLess(NameBytes(p[i]), NameBytes(q[i]))

\* EntryRevisions::cmp: by name, a String in the hotspot command and in
\* ocs-revisions (one component here), a PathBuf in the revisions command.
EntryRevisionsLess(a, b, by_path) ==
    IF by_path THEN PathLess(a.name, b.name)
    ELSE LexLess(NameBytes(a.name[1]), NameBytes(b.name[1]))

\* The elements of the set in ascending order (the iteration of a BTreeSet).
InOrder(set, by_path) ==
    [k \in 1..Cardinality(set) |->
        CHOOSE e \in set :
            Cardinality({x \in set : EntryRevisionsLess(x, e, by_path)}) = k - 1]

(***************************************************************************)
(* Output records.                                                         *)
(***************************************************************************)
Header(first, second) == [kind |-> "header", first |-> first, second |-> second]

Statistic(name, value) == [kind |-> "statistic", statistics |-> name, value |-> value]

Revisions(name, count) == [kind |-> "revisions", entry |-> name, n_revs |-> count]

SummaryOutput(first, commits, names, paths, ids) ==
    <<Header(first, "value"),
      Statistic("number-of-commits", commits),
      Statistic("number-of-authors", Cardinality(names)),
      Statistic("number-of-entries", Cardinality(paths)),
      Statistic("number-of-entries-changed", Cardinality(ids))>>

HotspotOutput(set, by_path) ==
    LET sorted == InOrder(set, by_path)
    IN  <<Header("entry", "n-revs")>> \o
        [k \in 1..Len(sorted) |->
            Revisions(sorted[k].name, Cardinality(sorted[k].revisions))]

(***************************************************************************)
(* The commit filter.                                                      *)
(***************************************************************************)
\* str::contains with a literal pattern: byte-wise substring search.
MatchesAt(msg, s, i) ==
    /\ i + Len(s) - 1 <= Len(msg)
    /\ \A k \in 1..Len(s) : msg[i + k - 1] = s[k]

Contains(msg, s) == \E i \in 1..(Len(msg) + 1) : MatchesAt(msg, s, i)

Lower(ch) == IF ch = "A" THEN "a" ELSE IF ch = "B" THEN "b" ELSE ch

ToLower(s) == [i \in 1..Len(s) |-> Lower(s[i])]

commit_message_matches_nocase(msg, grep) ==
    IF grep = None THEN TRUE
    ELSE IF msg = None THEN FALSE
    ELSE Contains(ToLower(Unwrap(msg)), ToLower(Unwrap(grep)))

commit_message_matches(msg, grep) ==
    IF grep = None THEN TRUE
    ELSE IF msg = None THEN FALSE
    ELSE Contains(Unwrap(msg), Unwrap(grep))

commit_timestamp_is_in_range_after_only(timestamp, before, after) ==
    IF after # None THEN TimeLess(Unwrap(after), timestamp)
    ELSE IF before # None /\ TimeLess(Unwrap(before), timestamp) THEN FALSE
    ELSE TRUE

commit_timestamp_is_in_range(timestamp, before, after) ==
    IF before # None /\ TimeLess(Unwrap(before), timestamp) THEN FALSE
    ELSE IF after # None THEN TimeLess(Unwrap(after), timestamp)
    ELSE TRUE

(***************************************************************************)
(* The commands.                                                           *)
(***************************************************************************)
SummaryProgs == {"summary", "ocs_summary"}     \* subcommands/summary.rs, bin/ocs-summary.rs
NameKeyedProgs == {"hotspot", "ocs_revisions"} \* subcommands/hotspot.rs, bin/ocs-revisions.rs
PathKeyedProgs == {"revisions"}                \* subcommands/revisions.rs
LibraryProgs == {"summary", "hotspot", "revisions"}
Progs == SummaryProgs \cup NameKeyedProgs \cup PathKeyedProgs

\* The specifiers a command line is built from.
Specifiers ==
    {<<"C">>, <<"D">>, <<"Z">>,
     <<"^", "A">>, <<"^", "Z">>,
     <<"A", "..", "C">>, <<"D", "..", "C">>, <<"Z", "..", "C">>,
     <<"D", "...", "C">>, <<"C", "...", "D">>, <<"E", "...", "C">>}

\* GitArgs.commit is an Option<String>, Args.arg_commit a Vec<String>.
CommitArgs(p) ==
    IF p \in LibraryProgs THEN SeqsUpTo(Specifiers, 1)
    ELSE SeqsUpTo(Specifiers, MaxSpecifiers)

GitArgs(commit, grep, before, after) ==
    [commit |-> commit, commit_msg_grep |-> grep, before |-> before, after |-> after]

RunArgs(p) ==
    {GitArgs(c, g, b, a) :
        c \in CommitArgs(p),
        g \in {None, Some(<<"a">>)},
        b \in {None, Some(Time(1, 0))},
        a \in {None, Some(Time(0, 0))}}

\* The dates of a command line, in days since 1970-01-01.
Dates == {0, 1}

SecondsPerDay == 86400

\* parse_iso_date_and_convert_to_git_time: midnight UTC of the date, offset 0.
parse_iso_date_and_convert_to_git_time(date) == Time(date * SecondsPerDay, 0)

\* The value of an optional date argument after its value parser.
ParsedOption(date) ==
    IF date = None THEN None
    ELSE Some(parse_iso_date_and_convert_to_git_time(Unwrap(date)))

\* The ArgMatches of a subcommand: git_common_args_extension defines the
\* arguments before and after and no other.
ArgMatches ==
    {[before |-> ParsedOption(b), after |-> ParsedOption(a)] :
        b \in Option(Dates), a \in Option(Dates)}

\* A constructor that exchanges the two bounds.
from_cli_args_swapped(git_matches) ==
    GitArgs(<<>>, None, git_matches.after, git_matches.before)

\* GitArgs::from_cli_args: after and before copied, the rest Default.
from_cli_args(git_matches) ==
    GitArgs(<<>>, None, git_matches.before, git_matches.after)

NoCall == [fn |-> "none"]

\* The commands that report progress, and the commands whose main unwraps
\* the result of run (the others print the error and return).
ProgressProgs == {"summary", "revisions"}
UnwrapProgs == LibraryProgs

(***************************************************************************)
(* progress.rs: the process-global progress bar.                           *)
(***************************************************************************)
ProgressBar(length, message, cleared) ==
    [length |-> length, message |-> message, cleared |-> cleared]

start_commit_analysing(show, bar) ==
    IF show THEN Some(ProgressBar(0, "Analyse commits", FALSE)) ELSE bar

increment_commit_analysing(bar) ==
    IF bar # None THEN Some([Unwrap(bar) EXCEPT !.length = @ + 1]) ELSE bar

finish_commit_analysing(bar) ==
    IF bar # None
        THEN Some([Unwrap(bar) EXCEPT !.message = "Commits analyzed", !.cleared = TRUE])
        ELSE bar

\* The line the stand-alone binaries print for an error, and the exit
\* status of a process that panics.
ErrorLine == [kind |-> "error"]
PanicStatus == 101

Init ==
    /\ prog \in Progs
    /\ \/ /\ matches = None
          /\ args \in RunArgs(prog)
       \/ /\ prog \in LibraryProgs
          /\ matches \in {Some(m) : m \in ArgMatches}
          /\ args = from_cli_args(Unwrap(matches))
    /\ unreadable \in {{}, {"c2"}}
    /\ pc = "start"
    /\ ops = <<>>
    /\ todo = {}
    /\ yielded = <<>>
    /\ retained = <<>>
    /\ number_of_commits = 0
    /\ authors = {}
    /\ entries = {}
    /\ entries_changed = {}
    /\ revs = {}
    /\ output = <<>>
    /\ error = None
    /\ exit_status = None
    /\ show_progress = FALSE
    /\ commit_analysing = None
    /\ call = NoCall

\* configure_progress_visualization, called before run.
ConfigureProgress ==
    \E show \in BOOLEAN :
        /\ pc = "start"
        /\ prog \in LibraryProgs
        /\ show_progress' = show
        /\ commit_analysing' = None
        /\ UNCHANGED <<prog, matches, args, unreadable, pc, ops, todo, yielded, retained,
                       number_of_commits, authors, entries, entries_changed,
                       revs, output, error, exit_status, call>>

\* Repository::open fails: run returns the error.
OpenErr ==
    /\ pc = "start"
    /\ pc' = "failed"
    /\ error' = Some("open")
    /\ UNCHANGED <<prog, matches, args, unreadable, ops, todo, yielded, retained,
                   number_of_commits, authors, entries, entries_changed,
                   revs, output, exit_status, show_progress, commit_analysing,
                   call>>

\* determine_commits_to_analyse up to the `?` that fails.
DetermineErr ==
    /\ pc = "start"
    /\ PrepareRevwalk(args.commit).err
    /\ pc' = "failed"
    /\ ops' = PrepareRevwalk(args.commit).ops
    /\ error' = Some("resolve")
    /\ UNCHANGED <<prog, matches, args, unreadable, todo, yielded, retained,
                   number_of_commits, authors, entries, entries_changed,
                   revs, output, call,
                   exit_status, show_progress, commit_analysing>>

\* determine_commits_to_analyse returns the filtered revwalk.
DetermineOk ==
    /\ pc = "start"
    /\ ~PrepareRevwalk(args.commit).err
    /\ pc' = "walking"
    /\ ops' = PrepareRevwalk(args.commit).ops
    /\ todo' = RevwalkCommits(PrepareRevwalk(args.commit).ops)
    /\ commit_analysing' =
           IF prog \in ProgressProgs
               THEN start_commit_analysing(show_progress, commit_analysing)
               ELSE commit_analysing
    /\ UNCHANGED <<prog, matches, args, unreadable, yielded, retained,
                   number_of_commits, authors, entries, entries_changed,
                   revs, output, call,
                   error, exit_status, show_progress>>

\* A closure that skips the time rule when a pattern is configured.
Retain_pattern_first(c) ==
    IF args.commit_msg_grep # None
        THEN commit_message_matches(Repo[c].message, args.commit_msg_grep)
        ELSE commit_timestamp_is_in_range(Repo[c].time, args.before, args.after)

\* The closure of filter_map on a commit that was looked up.
Retain(c) ==
    /\ commit_message_matches(Repo[c].message, args.commit_msg_grep)
    /\ commit_timestamp_is_in_range(Repo[c].time, args.before, args.after)

\* The commit counter incremented before the filter is applied.
StepFiltered_counting(c) ==
    /\ pc = "walking"
    /\ c \in todo
    /\ c \notin unreadable
    /\ ~Retain(c)
    /\ todo' = todo \ {c}
    /\ yielded' = Append(yielded, c)
    /\ number_of_commits' = number_of_commits + 1
    /\ UNCHANGED <<prog, matches, args, unreadable, pc, ops, retained,
                   authors, entries, entries_changed, revs, output, call,
                   error, exit_status, show_progress, commit_analysing>>

\* The trees of a rejected commit analysed all the same.
StepFiltered_analysing(c) ==
    /\ pc = "walking"
    /\ c \in todo
    /\ c \notin unreadable
    /\ ~Retain(c)
    /\ todo' = todo \ {c}
    /\ yielded' = Append(yielded, c)
    /\ IF prog \in SummaryProgs
           THEN /\ entries' = summary_analyse_entries_in_commit(c, entries)
                /\ entries_changed' = analyse_entries_changed_in_commit(c, entries_changed)
                /\ revs' = revs
           ELSE /\ revs' = IF prog \in PathKeyedProgs
                               THEN revisions_analyse_entries_in_commit(c, ProjectDir, revs)
                               ELSE hotspot_analyse_entries_in_commit(c, revs)
                /\ UNCHANGED <<entries, entries_changed>>
    /\ UNCHANGED <<prog, matches, args, unreadable, pc, ops, retained,
                   number_of_commits, authors, output, call,
                   error, exit_status, show_progress, commit_analysing>>

\* The author of a rejected commit recorded all the same.
StepFiltered_author(c) ==
    /\ pc = "walking"
    /\ c \in todo
    /\ c \notin unreadable
    /\ ~Retain(c)
    /\ todo' = todo \ {c}
    /\ yielded' = Append(yielded, c)
    /\ authors' = IF prog \in SummaryProgs THEN authors \cup Repo[c].author ELSE authors
    /\ UNCHANGED <<prog, matches, args, unreadable, pc, ops, retained,
                   number_of_commits, entries, entries_changed,
                   revs, output, call,
                   error, exit_status, show_progress, commit_analysing>>

\* The revwalk yields c and the closure returns None: the loop body is not run.
StepFiltered(c) ==
    /\ pc = "walking"
    /\ c \in todo
    /\ c \notin unreadable
    /\ ~Retain(c)
    /\ todo' = todo \ {c}
    /\ yielded' = Append(yielded, c)
    /\ UNCHANGED <<prog, matches, args, unreadable, pc, ops, retained,
                   number_of_commits, authors, entries, entries_changed,
                   revs, output, call,
                   error, exit_status, show_progress, commit_analysing>>

\* A closure that returns None for a commit whose lookup fails.
StepError_skipping(c) ==
    /\ pc = "walking"
    /\ c \in todo
    /\ c \in unreadable
    /\ todo' = todo \ {c}
    /\ yielded' = Append(yielded, c)
    /\ UNCHANGED <<prog, matches, args, unreadable, pc, ops, retained, number_of_commits,
                   authors, entries, entries_changed, revs, output, call,
                   error, exit_status, show_progress, commit_analysing>>

\* The revwalk yields c, its lookup fails, the closure returns Some(Err):
\* the loop body runs up to `commit?`, which returns the error from run.
StepError(c) ==
    /\ pc = "walking"
    /\ c \in todo
    /\ c \in unreadable
    /\ todo' = todo \ {c}
    /\ yielded' = Append(yielded, c)
    /\ number_of_commits' =
           IF prog \in SummaryProgs THEN number_of_commits + 1 ELSE number_of_commits
    /\ pc' = "failed"
    /\ error' = Some("lookup")
    /\ commit_analysing' =
           IF prog \in ProgressProgs
               THEN increment_commit_analysing(commit_analysing)
               ELSE commit_analysing
    /\ UNCHANGED <<prog, matches, args, unreadable, ops, retained, authors, entries,
                   entries_changed, revs, output, call,
                   exit_status, show_progress>>

\* The revwalk yields c, the closure returns Some(Ok(commit)): one pass of
\* the loop body of run.
StepRetained(c) ==
    /\ pc = "walking"
    /\ c \in todo
    /\ c \notin unreadable
    /\ Retain(c)
    /\ todo' = todo \ {c}
    /\ yielded' = Append(yielded, c)
    /\ retained' = Append(retained, c)
    /\ IF prog \in SummaryProgs
           THEN /\ number_of_commits' = number_of_commits + 1
                /\ authors' = authors \cup Repo[c].author
                /\ entries' = summary_analyse_entries_in_commit(c, entries)
                /\ entries_changed' = analyse_entries_changed_in_commit(c, entries_changed)
                /\ revs' = revs
           ELSE /\ revs' = IF prog \in PathKeyedProgs
                               THEN revisions_analyse_entries_in_commit(c, ProjectDir, revs)
                               ELSE hotspot_analyse_entries_in_commit(c, revs)
                /\ UNCHANGED <<number_of_commits, authors, entries, entries_changed>>
    /\ commit_analysing' =
           IF prog \in ProgressProgs
               THEN increment_commit_analysing(commit_analysing)
               ELSE commit_analysing
    /\ UNCHANGED <<prog, matches, args, unreadable, pc, ops, output, call,
                   error, exit_status, show_progress>>

\* The revwalk is exhausted: run writes its records and returns Ok.
Finish ==
    /\ pc = "walking"
    /\ todo = {}
    /\ pc' = "done"
    /\ output' =
           IF prog \in SummaryProgs
               THEN SummaryOutput(IF prog = "summary" THEN "statistics" ELSE "statistic",
                                  number_of_commits, authors, entries, entries_changed)
               ELSE HotspotOutput(revs, prog \in PathKeyedProgs)
    /\ commit_analysing' =
           IF prog \in ProgressProgs
               THEN finish_commit_analysing(commit_analysing)
               ELSE commit_analysing
    /\ UNCHANGED <<prog, matches, args, unreadable, ops, todo, yielded, retained,
                   number_of_commits, authors, entries, entries_changed,
                   revs, call,
                   error, exit_status, show_progress>>

\* main of ocs-summary and ocs-revisions: an error of run is printed with
\* println! and main returns.
MainPrints ==
    /\ prog \notin UnwrapProgs
    /\ pc \in {"done", "failed"}
    /\ exit_status = None
    /\ output' = IF pc = "failed" THEN Append(output, ErrorLine) ELSE output
    /\ exit_status' = Some(0)
    /\ UNCHANGED <<prog, matches, args, unreadable, pc, ops, todo, yielded, retained,
                   number_of_commits, authors, entries, entries_changed,
                   revs, error, show_progress, commit_analysing, call>>

\* main of the dispatcher: run(..).unwrap() panics on an error.
MainUnwraps ==
    /\ prog \in UnwrapProgs
    /\ pc \in {"done", "failed"}
    /\ exit_status = None
    /\ exit_status' = Some(IF pc = "failed" THEN PanicStatus ELSE 0)
    /\ UNCHANGED <<prog, matches, args, unreadable, pc, ops, todo, yielded, retained,
                   number_of_commits, authors, entries, entries_changed,
                   revs, output, error, show_progress, commit_analysing, call>>

Next ==
    \/ ConfigureProgress
    \/ OpenErr
    \/ DetermineErr
    \/ DetermineOk
    \/ \E c \in Commits : StepFiltered(c)
    \/ \E c \in Commits : StepError(c)
    \/ \E c \in Commits : StepRetained(c)
    \/ Finish
    \/ MainPrints
    \/ MainUnwraps

Spec == Init /\ [][Next]_vars

(***************************************************************************)
(* The filter predicates called directly, on every input of the bounds.    *)
(***************************************************************************)
FilterInit ==
    /\ prog = "summary"
    /\ matches = None
    /\ args = GitArgs(<<>>, None, None, None)
    /\ unreadable = {}
    /\ pc = "start"
    /\ ops = <<>>
    /\ todo = {}
    /\ yielded = <<>>
    /\ retained = <<>>
    /\ number_of_commits = 0
    /\ authors = {}
    /\ entries = {}
    /\ entries_changed = {}
    /\ revs = {}
    /\ output = <<>>
    /\ error = None
    /\ exit_status = None
    /\ show_progress = FALSE
    /\ commit_analysing = None
    /\ call = NoCall

CallTimestamp ==
    \E timestamp \in Timestamps, before \in Option(Bounds), after \in Option(Bounds) :
        /\ call = NoCall
        /\ call' = [fn |-> "commit_timestamp_is_in_range",
                    timestamp |-> timestamp, before |-> before, after |-> after,
                    result |-> commit_timestamp_is_in_range(timestamp, before, after)]
        /\ UNCHANGED runvars

CallMessage ==
    \E msg \in Option(SeqsUpTo(Chars, MaxMsgLen)),
       grep \in Option(SeqsUpTo(Chars, MaxGrepLen)) :
        /\ call = NoCall
        /\ call' = [fn |-> "commit_message_matches", msg |-> msg, grep |-> grep,
                    result |-> commit_message_matches(msg, grep)]
        /\ UNCHANGED runvars

FilterNext == CallTimestamp \/ CallMessage

FilterSpec == FilterInit /\ [][FilterNext]_vars

(***************************************************************************)
(* What the claims speak about.                                            *)
(***************************************************************************)
RECURSIVE FilePathsIn(_, _)
\* The full paths (sequences of names from the root of the tree) of the
\* files below a tree, for the paths made of UTF-8 names.
FilePathsIn(tree, prefix) ==
    UNION {IF Trees[tree][i].name = None THEN {}
           ELSE IF Trees[tree][i].kind = "blob"
               THEN {Append(prefix, Unwrap(Trees[tree][i].name))}
           ELSE IF Trees[tree][i].kind = "tree"
               THEN FilePathsIn(Trees[tree][i].id,
                                Append(prefix, Unwrap(Trees[tree][i].name)))
           ELSE {} : i \in 1..Len(Trees[tree])}

FilePaths(c) == FilePathsIn(Repo[c].tree, <<>>)

RECURSIVE BlobIn(_, _)
\* The blob id of the file at a full path below a tree (None: no such file).
BlobIn(tree, path) ==
    LET hit == {i \in 1..Len(Trees[tree]) : Trees[tree][i].name = Some(path[1])}
    IN  IF path = <<>> \/ hit = {} THEN None
        ELSE LET e == Trees[tree][CHOOSE i \in hit : TRUE]
             IN  IF Len(path) = 1
                     THEN (IF e.kind = "blob" THEN Some(e.id) ELSE None)
                     ELSE (IF e.kind = "tree" THEN BlobIn(e.id, Tail(path)) ELSE None)

BlobAt(c, path) == BlobIn(Repo[c].tree, path)

Leaf(path) == path[Len(path)]

NoFilter ==
    args.commit_msg_grep = None /\ args.before = None /\ args.after = None

\* The value a Summary run reported for a statistic.
Reported(name) ==
    (CHOOSE r \in Range(output) : r.kind = "statistic" /\ r.statistics = name).value

(***************************************************************************)
(* C1.  Summary counts paths by full-path identity: when a commit of the   *)
(* run has two files with the same leaf name in different directories,     *)
(* both full paths are in the path-name set and number-of-entries counts   *)
(* every full path of that commit.                                         *)
(* The code inserts entry.name(), the leaf name: this is violated.         *)
(***************************************************************************)
C1_FullPathIdentity ==
    (pc = "done" /\ prog \in SummaryProgs) =>
        \A c \in Range(retained) :
            \A p, q \in FilePaths(c) :
                (p # q /\ Leaf(p) = Leaf(q)) =>
                    /\ p \in entries
                    /\ q \in entries
                    /\ Reported("number-of-entries") >= Cardinality(FilePaths(c))

\* The path from the repository root an entry stands for.
EntryPath(e) == IF prog \in PathKeyedProgs THEN SubSeq(e.name, Len(ProjectDir) + 1, Len(e.name))
                ELSE e.name

(***************************************************************************)
(* C2.  Hotspot path identity is the traversal path: two files with the    *)
(* same leaf name in different directories of a commit have two entries,   *)
(* and the blob-id set of an entry holds only blob ids seen at the exact   *)
(* path of the entry.                                                      *)
(* It holds of the revisions command; the hotspot command and              *)
(* ocs-revisions key by the leaf name: violated.                           *)
(***************************************************************************)
C2_TraversalPathIdentity ==
    (prog \notin SummaryProgs) =>
        /\ \A c \in Range(retained) :
               \A p, q \in FilePaths(c) :
                   (p # q /\ Leaf(p) = Leaf(q)) =>
                       \E e1, e2 \in revs :
                           e1 # e2 /\ EntryPath(e1) = p /\ EntryPath(e2) = q
        /\ \A e \in revs :
               \A id \in e.revisions :
                   \E c \in Range(retained) : BlobAt(c, EntryPath(e)) = Some(id)

\* The same statement for the revisions command alone, which keeps it.
C2_RevisionsCommand ==
    (prog \in PathKeyedProgs) => C2_TraversalPathIdentity

(***************************************************************************)
(* C3.  With a before bound alone, a commit is retained if and only if     *)
(* its timestamp is strictly earlier than the bound.                       *)
(* The code rejects only when bound < timestamp, so a timestamp equal to   *)
(* the bound is retained: violated.                                        *)
(***************************************************************************)
C3_BeforeIsStrict ==
    (/\ call.fn = "commit_timestamp_is_in_range"
     /\ call.before # None
     /\ call.after = None) =>
        (call.result <=> TimeLess(call.timestamp, Unwrap(call.before)))

(***************************************************************************)
(* C4.  With an after bound a commit is retained only if after <           *)
(* timestamp, and a timestamp equal to the bound is rejected; with no      *)
(* bound every commit passes; with both bounds the decision is the         *)
(* conjunction of the before-only and the after-only decision.             *)
(***************************************************************************)
C4_AfterStrictAndConjunction ==
    (call.fn = "commit_timestamp_is_in_range") =>
        /\ (call.after # None /\ call.result) =>
               TimeLess(Unwrap(call.after), call.timestamp)
        /\ (call.after # None /\ call.before = None) =>
               (call.result <=> TimeLess(Unwrap(call.after), call.timestamp))
        /\ (call.after = Some(call.timestamp)) => ~call.result
        /\ (call.after = None /\ call.before = None) => call.result
        /\ call.result =
               (/\ commit_timestamp_is_in_range(call.timestamp, call.before, None)
                /\ commit_timestamp_is_in_range(call.timestamp, None, call.after))

C4_Witness ==
    /\ call.fn = "commit_timestamp_is_in_range"
    /\ call.before # None
    /\ call.after = Some(call.timestamp)
    /\ TimeLess(call.timestamp, Unwrap(call.before))
    /\ ~call.result

\* s occurs in msg as a contiguous run of characters.
IsSubstring(s, msg) ==
    \E i \in 0..(Len(msg) - Len(s)) : SubSeq(msg, i + 1, i + Len(s)) = s

(***************************************************************************)
(* C5.  Message rule: no pattern, every commit passes; with a pattern a    *)
(* commit passes iff it has a message that contains the pattern as a       *)
(* literal, case-sensitive substring; without a message it is rejected     *)
(* for every pattern, the empty one included.                              *)
(***************************************************************************)
C5_MessageRule ==
    (call.fn = "commit_message_matches") =>
        /\ (call.grep = None) => call.result
        /\ (call.grep # None /\ call.msg = None) => ~call.result
        /\ (call.grep # None /\ call.msg # None) =>
               (call.result <=> IsSubstring(Unwrap(call.grep), Unwrap(call.msg)))

C5_Witness ==
    /\ call.fn = "commit_message_matches"
    /\ call.grep = Some(<<>>)
    /\ call.msg = None
    /\ ~call.result

\* The seeds a specifier includes and excludes, read off its form.
IncludedBy(sp) ==
    IF sp[1] = "^" THEN {}
    ELSE IF Len(sp) = 1 THEN Resolve(sp[1])
    ELSE Resolve(sp[3]) \cup
         (IF sp[2] = "..." THEN merge_base(Unwrap(Resolve(sp[1])), Unwrap(Resolve(sp[3])))
                           ELSE {})

ExcludedBy(sp) ==
    IF sp[1] = "^" THEN Resolve(sp[2])
    ELSE IF Len(sp) = 1 THEN {}
    ELSE Resolve(sp[1])

Included == UNION {IncludedBy(args.commit[i]) : i \in 1..Len(args.commit)}
Excluded == UNION {ExcludedBy(args.commit[i]) : i \in 1..Len(args.commit)}

(***************************************************************************)
(* C6.  Range semantics, no filter configured, on the linear history       *)
(* c1 <- c2 <- c3 named A, B, C: "C" alone yields {c1, c2, c3}; "A..C"     *)
(* yields {c2, c3}; "^A" with "C" yields {c2, c3}.  In general a           *)
(* successful run visits, once each, the ancestry of the included seeds    *)
(* minus the ancestry of the excluded seeds.                               *)
(***************************************************************************)
C6_RangeSemantics ==
    (pc = "done" /\ NoFilter) =>
        /\ Len(retained) = Cardinality(Range(retained))
        /\ (args.commit = <<<<"C">>>>) => Range(retained) = {"c1", "c2", "c3"}
        /\ (args.commit = <<<<"A", "..", "C">>>>) => Range(retained) = {"c2", "c3"}
        /\ (args.commit = <<<<"^", "A">>, <<"C">>>>) => Range(retained) = {"c2", "c3"}
        /\ (args.commit # <<>>) =>
               Range(retained) = Ancestors(Included) \ Ancestors(Excluded)

C6_Witness ==
    /\ pc = "done"
    /\ NoFilter
    /\ args.commit = <<<<"^", "A">>, <<"C">>>>
    /\ Range(retained) = {"c2", "c3"}

(***************************************************************************)
(* C7.  A three-dot range from...to yields the commits reachable from      *)
(* exactly one of the two endpoints, and whenever `from` has commits that  *)
(* are not ancestors of `to` the result differs from that of from..to.     *)
(* The code pushes `to` and the merge base and hides `from`; the merge     *)
(* base is an ancestor of `from`, so it is hidden again and the walk is    *)
(* that of from..to: violated.                                             *)
(***************************************************************************)
C7_ThreeDotIsSymmetricDifference ==
    (/\ pc = "done"
     /\ NoFilter
     /\ Len(args.commit) = 1
     /\ Len(args.commit[1]) = 3
     /\ args.commit[1][2] = "...") =>
        LET from == Ancestors(Resolve(args.commit[1][1]))
            to == Ancestors(Resolve(args.commit[1][3]))
        IN  /\ Range(retained) = (from \ to) \cup (to \ from)
            /\ (from \ to # {}) => Range(retained) # to \ from

(***************************************************************************)
(* C8.  With no specifier the head commit is the only seed and nothing is  *)
(* hidden; with at least one specifier push_head is not called (in a run   *)
(* that opened the repository).                                            *)
(***************************************************************************)
C8_HeadFallback ==
    (pc # "start" /\ error # Some("open")) =>
        /\ (Len(args.commit) = 0) =>
               /\ ops = <<PushHead>>
               /\ Pushed(ops) = {HeadCommit}
               /\ Hidden(ops) = {}
        /\ (Len(args.commit) > 0) =>
               \A i \in 1..Len(ops) : ops[i][1] # "push_head"

C8_Witness ==
    /\ pc = "done"
    /\ Len(args.commit) = 0
    /\ NoFilter
    /\ ops = <<PushHead>>
    /\ Range(retained) = Ancestors({HeadCommit})

\* The author names present among a set of commits.
AuthorNames(cs) == UNION {Repo[c].author : c \in cs}

(***************************************************************************)
(* C9.  On a successful Summary run number-of-commits is the number of     *)
(* retained commits and number-of-authors the number of distinct author    *)
(* names among them; a retained commit without an author name counts as a  *)
(* commit and adds no author.                                              *)
(***************************************************************************)
C9_CommitAndAuthorCounts ==
    (pc = "done" /\ prog \in SummaryProgs) =>
        /\ Reported("number-of-commits") = Len(retained)
        /\ Reported("number-of-commits") =
               Cardinality({c \in Range(yielded) : Retain(c)})
        /\ Reported("number-of-authors") = Cardinality(AuthorNames(Range(retained)))

C9_Witness ==
    /\ pc = "done"
    /\ prog \in SummaryProgs
    /\ "c4" \in Range(retained)
    /\ Repo["c4"].author = None
    /\ Len(retained) = 2
    /\ Len(yielded) > Len(retained)
    /\ Reported("number-of-commits") = 2
    /\ Reported("number-of-authors") = 1

\* The (path, count) records of the output.
Records == {r \in Range(output) : r.kind = "revisions"}

\* The path from the repository root a record names.
RecordPath(r) == IF prog \in PathKeyedProgs THEN SubSeq(r.entry, Len(ProjectDir) + 1, Len(r.entry))
                 ELSE r.entry

ObservedPaths == UNION {FilePaths(c) : c \in Range(retained)}

BlobsAt(path) == UNION {BlobAt(c, path) : c \in Range(retained)}

(***************************************************************************)
(* C10.  The Hotspot output has exactly one record for every path seen in  *)
(* a retained commit and none for another path, and the count of a record  *)
(* is the number of distinct blob ids seen at that path in the retained    *)
(* commits.                                                                *)
(* It holds of the revisions command; the hotspot command and              *)
(* ocs-revisions key the records by leaf name (C2): violated.              *)
(***************************************************************************)
C10_HotspotOutput ==
    (pc = "done" /\ prog \notin SummaryProgs) =>
        /\ \A path \in ObservedPaths :
               \E r \in Records :
                   /\ RecordPath(r) = path
                   /\ r.n_revs = Cardinality(BlobsAt(path))
        /\ \A r \in Records : RecordPath(r) \in ObservedPaths
        /\ Cardinality(Records) = Cardinality(ObservedPaths)
        /\ Len(output) = Cardinality(Records) + 1

\* The same statement for the revisions command alone, which keeps it.
C10_RevisionsCommand ==
    (prog \in PathKeyedProgs) => C10_HotspotOutput

\* The blob ids of the model's repository, and one more.
BlobIds == {"X", "Y", "Z", "P", "Q", "R", "N", "U", "V", "W"}

\* The keys one more observation may have: those present, and a new one.
ObservableNames == {e.name : e \in revs} \cup {<<"new">>}

\* The count the aggregator holds for a key (0: the key is absent).
CountOf(set, name) ==
    IF BTreeGet(set, [name |-> name]) = None THEN 0
    ELSE Cardinality(Unwrap(BTreeGet(set, [name |-> name])).revisions)

\* One observation on the state `revs`: nothing is lost, the count of the
\* observed key stays for a known blob id and grows by one for a new one,
\* and no other key changes.
ObservationGrows(name, id) ==
    LET after == ObserveEntry(revs, name, id)
        known == \E e \in revs : e.name = name /\ id \in e.revisions
    IN  /\ \A e \in revs :
               \E f \in after : f.name = e.name /\ e.revisions \subseteq f.revisions
        /\ CountOf(after, name) = CountOf(revs, name) + (IF known THEN 0 ELSE 1)
        /\ \A e \in revs : e.name # name => e \in after
        /\ Cardinality({f.name : f \in after}) = Cardinality(after)

\* One step of a run: every key stays with a superset of its blob ids, and
\* the Summary sets and the counter do not shrink.
StepGrows ==
    /\ \A e \in revs :
           \E f \in revs' : f.name = e.name /\ e.revisions \subseteq f.revisions
    /\ authors \subseteq authors'
    /\ entries \subseteq entries'
    /\ entries_changed \subseteq entries_changed'
    /\ number_of_commits <= number_of_commits'

(***************************************************************************)
(* C11.  The aggregator state is monotonic with set semantics: a path      *)
(* once present stays present and its blob-id set after an observation is  *)
(* a superset of the set before (the insert of a fresh empty entry for a   *)
(* known path does not discard the accumulated set); observing a known     *)
(* (path, blob id) leaves the count, a new blob id raises it by exactly    *)
(* one; the Summary sets only grow.                                        *)
(***************************************************************************)
C11_MonotonicSets ==
    /\ [](\A name \in ObservableNames : \A id \in BlobIds : ObservationGrows(name, id))
    /\ [][StepGrows]_vars

C11_Witness ==
    /\ prog \notin SummaryProgs
    /\ Len(retained) = 3
    /\ \E e \in revs :
           /\ Cardinality(e.revisions) = 2
           /\ \E id \in e.revisions :
                  ObserveEntry(revs, e.name, id) = revs
           /\ CountOf(ObserveEntry(revs, e.name, "W"), e.name) = 3

RECURSIVE PathText(_)
\* The text of a path as it is printed: the names joined by "/" (byte 47).
PathText(path) ==
    IF Len(path) = 0 THEN <<>>
    ELSE IF Len(path) = 1 THEN NameBytes(path[1])
    ELSE NameBytes(path[1]) \o <<47>> \o PathText(Tail(path))

\* The (path, count) records of the output, in the order they were written.
RecordSeq == SubSeq(output, 2, Len(output))

(***************************************************************************)
(* C12.  The Hotspot records are emitted in ascending order of the text    *)
(* of their path compared character by character, in the name-keyed       *)
(* commands and in the path-keyed revisions command, whatever the counts   *)
(* and the order of the observations; this includes two paths where a      *)
(* directory separator is compared with another character (a/b and a-b).   *)
(* The revisions command orders by PathBuf, component by component, so     *)
(* a/b comes before a-b although "-" < "/": violated.                      *)
(***************************************************************************)
C12_AscendingPathText ==
    (pc = "done" /\ prog \notin SummaryProgs) =>
        \A i, j \in 1..Len(RecordSeq) :
            i < j => LexLess(PathText(RecordSeq[i].entry), PathText(RecordSeq[j].entry))

\* The same statement for the name-keyed commands alone, which keep it.
C12_NameKeyedCommands ==
    (prog \in NameKeyedProgs) => C12_AscendingPathText

\* The (path, count) pairs of the output.
PathCounts == {<<RecordPath(r), r.n_revs>> : r \in Records}

(***************************************************************************)
(* C13.  Three commits by two authors, the first with a.txt (blob X), the  *)
(* second with a.txt (blob Y) and b.txt (blob Z), the third with the tree  *)
(* of the second, no filter: Summary reports 3 commits, 2 authors, 2       *)
(* paths and 3 content ids; Hotspot reports a.txt with 2 and b.txt with 1. *)
(***************************************************************************)
C13_ThreeCommitScenario ==
    (pc = "done" /\ NoFilter /\ Range(retained) = {"c1", "c2", "c3"}) =>
        /\ (prog \in SummaryProgs) =>
               /\ Reported("number-of-commits") = 3
               /\ Reported("number-of-authors") = 2
               /\ Reported("number-of-entries") = 2
               /\ Reported("number-of-entries-changed") = 3
               /\ Len(output) = 5
        /\ (prog \notin SummaryProgs) =>
               /\ PathCounts = {<< <<"a.txt">>, 2 >>, << <<"b.txt">>, 1 >>}
               /\ Len(output) = 3

C13_Witness ==
    /\ pc = "done"
    /\ prog = "summary"
    /\ NoFilter
    /\ args.commit = <<>>
    /\ Range(retained) = {"c1", "c2", "c3"}
    /\ Repo["c3"].tree = Repo["c2"].tree
    /\ AuthorNames({"c1", "c2", "c3"}) = {"ann", "bob"}
    /\ Reported("number-of-entries-changed") = 3

(***************************************************************************)
(* C14.  A run that retains no commit and meets no error reports 0 for     *)
(* each of the four Summary statistics, and Hotspot writes no (path,       *)
(* count) record.                                                          *)
(***************************************************************************)
C14_EmptyRun ==
    (pc = "done" /\ Len(retained) = 0) =>
        /\ (prog \in SummaryProgs) =>
               /\ Reported("number-of-commits") = 0
               /\ Reported("number-of-authors") = 0
               /\ Reported("number-of-entries") = 0
               /\ Reported("number-of-entries-changed") = 0
        /\ (prog \notin SummaryProgs) => Records = {}

C14_Witness ==
    /\ pc = "done"
    /\ Len(retained) = 0
    /\ Len(yielded) = 3
    /\ prog = "ocs_summary"
    /\ Reported("number-of-commits") = 0
    /\ Reported("number-of-entries") = 0

\* The names a specifier is made of.
NamesOf(sp) == {sp[i] : i \in {j \in 1..Len(sp) : sp[j] \notin {"^", "..", "..."}}}

\* A specifier that cannot be resolved: one of its names resolves to
\* nothing, or it is a three-dot range of two commits without a common
\* ancestor.
Unresolvable(sp) ==
    \/ \E n \in NamesOf(sp) : Resolve(n) = None
    \/ /\ Len(sp) = 3
       /\ sp[2] = "..."
       /\ Ancestors(Resolve(sp[1])) \cap Ancestors(Resolve(sp[3])) = {}

FailingSpecifiers == {i \in 1..Len(args.commit) : Unresolvable(args.commit[i])}

FirstFailing == CHOOSE i \in FailingSpecifiers : \A j \in FailingSpecifiers : i <= j

\* The records of a report: header row, Summary statistic, Hotspot line.
ReportRecords == {r \in Range(output) : r.kind \in {"header", "statistic", "revisions"}}

(***************************************************************************)
(* C15.  When a specifier cannot be resolved (a plain one, the target of   *)
(* an exclusion, a range endpoint, the merge base of a three-dot range)    *)
(* the run returns an error, no record has been written (no statistic, no  *)
(* Hotspot line, no header row), and the specifiers after the failing one  *)
(* are not processed.                                                      *)
(***************************************************************************)
C15_UnresolvableSpecifier ==
    (pc # "start" /\ FailingSpecifiers # {} /\ error # Some("open")) =>
        /\ pc = "failed"
        /\ error = Some("resolve")
        /\ ReportRecords = {}
        /\ yielded = <<>>
        /\ ops = PrepareRevwalk(SubSeq(args.commit, 1, FirstFailing)).ops
        /\ \A i \in 1..Len(ops) : ops[i][1] # "push_head"

C15_Witness ==
    /\ pc = "failed"
    /\ Len(args.commit) = 2
    /\ args.commit[1] = <<"E", "...", "C">>
    /\ args.commit[2] = <<"D">>
    /\ ops = <<Push("c3")>>
    /\ output = <<>>

(***************************************************************************)
(* C16.  A process in which opening the repository, resolving a specifier  *)
(* or looking up a commit of the walk failed ends with a non-zero exit     *)
(* status, in the dispatcher and in the stand-alone ocs-summary and        *)
(* ocs-revisions.                                                          *)
(* main of ocs-summary and ocs-revisions prints the error with println!    *)
(* and returns, so the status is 0: violated.                              *)
(***************************************************************************)
C16_NonZeroExitOnFailure ==
    (exit_status # None /\ error # None) => Unwrap(exit_status) # 0

\* The same statement for the commands whose main unwraps, which keep it.
C16_UnwrappingMains ==
    (prog \in UnwrapProgs) => C16_NonZeroExitOnFailure

RECURSIVE FilesIn(_, _)
\* The file (blob) entries reachable from a tree, at any depth, whatever
\* the names: the names of the directories above (None: not UTF-8), the
\* name of the entry and its blob id.
FilesIn(tree, dirs) ==
    UNION {IF Trees[tree][i].kind = "blob"
               THEN {[dirs |-> dirs, name |-> Trees[tree][i].name, id |-> Trees[tree][i].id]}
           ELSE IF Trees[tree][i].kind = "tree"
               THEN FilesIn(Trees[tree][i].id, Append(dirs, Trees[tree][i].name))
           ELSE {} : i \in 1..Len(Trees[tree])}

Files(c) == FilesIn(Repo[c].tree, <<>>)

RetainedFiles == UNION {Files(c) : c \in Range(retained)}

\* The key the running command gives a file, None when a name it needs is
\* not there.
KeyOf(f) ==
    IF f.name = None THEN None
    ELSE IF prog \notin PathKeyedProgs THEN Some(<<Unwrap(f.name)>>)
    ELSE IF \E i \in 1..Len(f.dirs) : f.dirs[i] = None THEN None
    ELSE Some(ProjectDir \o [i \in 1..Len(f.dirs) |-> Unwrap(f.dirs[i])]
                         \o <<Unwrap(f.name)>>)

\* The file has been observed by the aggregators of the running command.
PathObserved(f) ==
    /\ KeyOf(f) # None
    /\ IF prog \in SummaryProgs THEN Unwrap(KeyOf(f)) \in entries
       ELSE \E e \in revs : e.name = Unwrap(KeyOf(f)) /\ f.id \in e.revisions

IdObserved(f) ==
    IF prog \in SummaryProgs THEN f.id \in entries_changed ELSE PathObserved(f)

\* Everything the aggregators hold comes from a file of a retained commit.
OnlyFilesObserved ==
    /\ \A n \in entries : \E f \in RetainedFiles : KeyOf(f) = Some(n)
    /\ \A id \in entries_changed : \E f \in RetainedFiles : f.id = id
    /\ \A e \in revs : \A id \in e.revisions :
           \E f \in RetainedFiles : KeyOf(f) = Some(e.name) /\ f.id = id

(***************************************************************************)
(* C17.  For every retained commit the walk observes every file entry      *)
(* reachable from the root tree, at any depth, and nothing else: subtrees  *)
(* are descended into and not observed, submodule links are skipped.  No   *)
(* file is left out because of its name or the name of a directory above   *)
(* it, and the Summary path set and content-id set are fed from the same   *)
(* file entries.                                                           *)
(* Every walk drops an entry whose name() is None (a name that is not      *)
(* UTF-8), analyze_tree_object also everything below such a directory,     *)
(* and the Summary content-id set takes the blob all the same: violated.   *)
(***************************************************************************)
C17_EveryFileObserved ==
    /\ OnlyFilesObserved
    /\ \A f \in RetainedFiles : PathObserved(f) /\ IdObserved(f)

\* The same statement for the commits whose names are all UTF-8, which
\* keep it.
C17_Utf8Names ==
    ("c4" \notin Range(retained)) => C17_EveryFileObserved

\* The message rule, a function of the message and the pattern alone.
MessageRule(msg, grep) ==
    \/ grep = None
    \/ msg # None /\ IsSubstring(Unwrap(grep), Unwrap(msg))

\* The time rule, a function of the timestamp and the bounds alone.
TimeRule(timestamp, before, after) ==
    /\ before # None => ~TimeLess(Unwrap(before), timestamp)
    /\ after # None => TimeLess(Unwrap(after), timestamp)

MessagePasses(c) == MessageRule(Repo[c].message, args.commit_msg_grep)
TimePasses(c) == TimeRule(Repo[c].time, args.before, args.after)

(***************************************************************************)
(* C18.  Filter independence: a commit the walk yields is retained iff     *)
(* the message rule passes and the time rule passes, where the time rule   *)
(* depends on the timestamp and the bounds alone (not on the pattern or    *)
(* the message) and the message rule on the message and the pattern alone  *)
(* (not on the timestamp or the bounds).                                   *)
(***************************************************************************)
C18_FilterIndependence ==
    \A c \in Range(yielded) \ unreadable :
        /\ (c \in Range(retained)) <=> (MessagePasses(c) /\ TimePasses(c))
        /\ commit_timestamp_is_in_range(Repo[c].time, args.before, args.after)
               = TimePasses(c)
        /\ commit_message_matches(Repo[c].message, args.commit_msg_grep)
               = MessagePasses(c)

C18_Witness ==
    /\ {"c1", "c2", "c4"} \subseteq Range(yielded)
    /\ unreadable = {}
    /\ args.commit_msg_grep # None
    /\ args.before # None
    /\ args.after # None
    /\ MessagePasses("c1") /\ ~TimePasses("c1")
    /\ ~MessagePasses("c2") /\ TimePasses("c2")
    /\ Range(retained) = {"c4"}

\* The state of the aggregators of the running command.
AggregatorState(n, a, e, ch, r) ==
    [number_of_commits |-> n, authors |-> a, entries |-> e,
     entries_changed |-> ch, revs |-> r]

EmptyState == AggregatorState(0, {}, {}, {}, {})

CurrentState ==
    AggregatorState(number_of_commits, authors, entries, entries_changed, revs)

\* One pass of the loop body of the running command on commit c.
Aggregate(c, st) ==
    IF prog \in SummaryProgs
        THEN AggregatorState(st.number_of_commits + 1,
                             st.authors \cup Repo[c].author,
                             summary_analyse_entries_in_commit(c, st.entries),
                             analyse_entries_changed_in_commit(c, st.entries_changed),
                             st.revs)
        ELSE [st EXCEPT !.revs =
                 IF prog \in PathKeyedProgs
                     THEN revisions_analyse_entries_in_commit(c, ProjectDir, @)
                     ELSE hotspot_analyse_entries_in_commit(c, @)]

RECURSIVE AggregateAll(_)
\* The state after the commits of S, aggregated from the empty state in
\* one fixed order.
AggregateAll(S) ==
    IF S = {} THEN EmptyState
    ELSE LET c == CHOOSE x \in S : TRUE
         IN  Aggregate(c, AggregateAll(S \ {c}))

\* Merge of two states: counter sum, set union, per-path set union.
Merge(s, t) ==
    AggregatorState(s.number_of_commits + t.number_of_commits,
                    s.authors \cup t.authors,
                    s.entries \cup t.entries,
                    s.entries_changed \cup t.entries_changed,
                    {[name |-> n,
                      revisions |-> UNION {e.revisions :
                                              e \in {x \in s.revs \cup t.revs : x.name = n}}] :
                        n \in {e.name : e \in s.revs \cup t.revs}})

\* What a state is reported as.
OutputOf(st) ==
    IF prog \in SummaryProgs
        THEN SummaryOutput(IF prog = "summary" THEN "statistics" ELSE "statistic",
                           st.number_of_commits, st.authors, st.entries,
                           st.entries_changed)
        ELSE HotspotOutput(st.revs, prog \in PathKeyedProgs)

(***************************************************************************)
(* C19.  Accumulation is commutative and associative under set union: in   *)
(* whatever order the retained commits were visited, the aggregator state  *)
(* (and so the four Summary cardinalities and the Hotspot mapping) equals  *)
(* the merge (counter sum, set union, per-path set union) of the states    *)
(* obtained by aggregating the two parts of any partition of the retained  *)
(* commits separately.                                                     *)
(***************************************************************************)
C19_OrderAndPartition ==
    (error = None) =>
        /\ \A S \in SUBSET Range(retained) :
               CurrentState = Merge(AggregateAll(S), AggregateAll(Range(retained) \ S))
        /\ (pc = "done") => output = OutputOf(AggregateAll(Range(retained)))

C19_Witness ==
    /\ pc = "done"
    /\ prog = "ocs_revisions"
    /\ retained = <<"c4", "c3", "c1", "c2">>
    /\ CurrentState = Merge(AggregateAll({"c1", "c4"}), AggregateAll({"c2", "c3"}))
    /\ CountOf(revs, <<"a.txt">>) = 2
    /\ CountOf(revs, <<"x">>) = 2

\* run has returned, with Ok or with an error.
RunReturned == pc \in {"done", "failed"}

(***************************************************************************)
(* C20.  After the analysis all progress feedback is removed: in a run of  *)
(* the summary or the revisions command with the progress display          *)
(* enabled, once start_commit_analysing has created the bar,               *)
(* finish_commit_analysing (finish and clear) has been executed when run   *)
(* returns, on the successful path and on the path where a commit lookup   *)
(* of the walk yields an error.                                            *)
(* `commit?` returns from run inside the loop, before                      *)
(* finish_commit_analysing: the bar stays on the terminal: violated.       *)
(***************************************************************************)
C20_ProgressCleared ==
    (/\ RunReturned
     /\ prog \in ProgressProgs
     /\ show_progress
     /\ commit_analysing # None) =>
        /\ Unwrap(commit_analysing).cleared
        /\ Unwrap(commit_analysing).message = "Commits analyzed"

\* The same statement for the runs that return Ok, which keep it.
C20_SuccessfulRun ==
    (error = None) => C20_ProgressCleared

\* The commit was looked up and passes the filter.
Passes(c) == c \notin unreadable /\ MessagePasses(c) /\ TimePasses(c)

\* A step in which the walk yields a commit that the filter rejects.
YieldsRejected ==
    /\ Len(yielded') = Len(yielded) + 1
    /\ yielded'[Len(yielded')] \notin unreadable
    /\ ~Passes(yielded'[Len(yielded')])

(***************************************************************************)
(* C21.  A commit rejected by the filter leaves every accumulator          *)
(* unchanged (commit counter, author set, path set, content-id set,        *)
(* Hotspot mapping) and its tree is not walked; the filter is applied to   *)
(* one candidate at a time as the walk yields it, so the commits that      *)
(* reach the aggregators are the yielded commits that pass the filter, in  *)
(* the order the walk yields them.                                         *)
(***************************************************************************)
C21_RejectedCommitFrame ==
    /\ [](retained = SelectSeq(yielded, Passes))
    /\ [][/\ Len(yielded') <= Len(yielded) + 1
          /\ YieldsRejected =>
                 UNCHANGED <<retained, number_of_commits, authors, entries,
                             entries_changed, revs, output>>]_vars

C21_Witness ==
    /\ prog = "ocs_summary"
    /\ yielded = <<"c4", "c1", "c2", "c3">>
    /\ retained = <<"c4", "c2">>
    /\ ~Passes("c1") /\ ~Passes("c3")
    /\ number_of_commits = 2
    /\ authors = {"bob"}
    /\ entries_changed = {"P", "Q", "N", "R", "U", "V", "Y", "Z"}

\* The positions of the walk at which the lookup of the commit failed.
ErrorItems == {i \in 1..Len(yielded) : yielded[i] \in unreadable}

(***************************************************************************)
(* C22.  Early error short-circuit: when the lookup of a yielded commit    *)
(* fails, the step is an error item and not a skipped commit: the loop     *)
(* stops at this first error, no later commit is processed, run returns    *)
(* the error, and no record is written although earlier commits have been  *)
(* aggregated.                                                             *)
(***************************************************************************)
C22_ErrorShortCircuit ==
    /\ [](ErrorItems # {} =>
              /\ ErrorItems = {Len(yielded)}
              /\ pc = "failed"
              /\ error = Some("lookup")
              /\ yielded[Len(yielded)] \notin Range(retained)
              /\ ReportRecords = {})
    /\ [][error = Some("lookup") =>
              UNCHANGED <<todo, yielded, retained, number_of_commits, authors,
                          entries, entries_changed, revs, error, pc>>]_vars

C22_Witness ==
    /\ prog = "hotspot"
    /\ pc = "failed"
    /\ error = Some("lookup")
    /\ yielded = <<"c1", "c2">>
    /\ retained = <<"c1">>
    /\ todo = {"c3"}
    /\ revs # {}
    /\ exit_status # None
    /\ output = <<>>

(***************************************************************************)
(* C23.  Through the subcommand command line GitArgs::from_cli_args        *)
(* carries the before and after bounds and nothing else: commit is None    *)
(* and commit_msg_grep is None, so the walk is seeded from head alone, no  *)
(* commit is hidden and the message rule passes for every commit; and as   *)
(* GitArgs.commit holds at most one specifier, the selector of the         *)
(* library processes at most one specifier in a run.                       *)
(***************************************************************************)
C23_CliArgs ==
    /\ (matches # None) =>
           /\ args.commit = <<>>
           /\ args.commit_msg_grep = None
           /\ args.before = Unwrap(matches).before
           /\ args.after = Unwrap(matches).after
           /\ (pc # "start" /\ error # Some("open")) =>
                  /\ ops = <<PushHead>>
                  /\ Hidden(ops) = {}
                  /\ error # Some("resolve")
           /\ \A c \in Range(yielded) \ unreadable :
                  /\ MessagePasses(c)
                  /\ (c \in Range(retained)) <=> TimePasses(c)
    /\ (prog \in LibraryProgs) =>
           /\ Len(args.commit) <= 1
           /\ Len(ops) <= 3
           /\ Cardinality(Pushed(ops)) <= 2
           /\ Cardinality(Hidden(ops)) <= 1

C23_Witness ==
    /\ matches # None
    /\ Unwrap(matches).before = Some(Time(0, 0))
    /\ Unwrap(matches).after = None
    /\ pc = "done"
    /\ ops = <<PushHead>>
    /\ Repo["c3"].message = None
    /\ yielded = <<"c3", "c2", "c1">>
    /\ retained = <<"c1">>

\* The timestamps with the seconds of the recorded call and any offset.
SameSeconds == {Time(call.timestamp.time, o) : o \in Offsets}

(***************************************************************************)
(* C24.  The decision of the time rule is a function of the seconds of     *)
(* the commit timestamp alone: for bounds with offset 0, two timestamps    *)
(* with the same seconds and different offsets get the same decision.      *)
(* The code compares git2 Time values, whose order takes the offset when   *)
(* the seconds are equal: a timestamp with the seconds of the bound is     *)
(* decided by the sign of its offset: violated.                            *)
(***************************************************************************)
C24_SecondsOnly ==
    (call.fn = "commit_timestamp_is_in_range") =>
        \A other \in SameSeconds :
            commit_timestamp_is_in_range(other, call.before, call.after) = call.result

\* The same statement for the timestamps whose seconds are those of no
\* bound, which keep it.
C24_AwayFromBounds ==
    (/\ call.fn = "commit_timestamp_is_in_range"
     /\ \A b \in call.before \cup call.after : b.time # call.timestamp.time) =>
        C24_SecondsOnly

====
